---- MODULE Spec2Model ----
(***************************************************************************)
(* A notebook session of "Pandas tip #1: Faster DataFrame row iteration".  *)
(* The session binds df to a freshly sampled 100 x 4 table and then runs   *)
(* the iteration cells in any order, any number of times: a for loop over  *)
(* df.iterrows(), df.itertuples() or df.itertuples(index=False), and a     *)
(* single next() on a new df.iterrows() or df.itertuples() generator.      *)
(* Generators are kept in a bounded pool until they are collected, so that *)
(* several of them can be observed side by side.                           *)
(***************************************************************************)
EXTENDS Integers, Sequences, FiniteSets, TLC

VARIABLES df, iters, out, loop, cell

vars == <<df, iters, out, loop, cell>>

\* ------------------------------------------------------------------ bounds
\* seeds 0..MaxSeed select the outcomes of the pseudorandom sampling
MaxSeed == 1
\* number of generator objects that can be allocated at the same time
MaxIters == 2

\* ------------------------------------------------- constants of the program
\* np.random.randint(0, 100, size=(100, 4))
Low == 0
High == 100
NumRows == 100
NumCols == 4
\* columns=list('ABCD')
Columns == <<"A", "B", "C", "D">>

Seeds == 0..MaxSeed
Slots == 1..MaxIters

\* ------------------------------------------------------------- the table
\* the k-th draw of the generator state selected by seed
Stream(seed, k) == (seed + 1) * 37 + k * 61

\* the inclusive upper bound of random.randint, instead of numpy's exclusive
RandintInclusive(low, high, seed, k) == low + (Stream(seed, k) % (high - low + 1))

\* np.random.randint(low, high): an integer v with low <= v < high
Randint(low, high, seed, k) == low + (Stream(seed, k) % (high - low))

\* np.random.randint(0, 100, size=(100, 4)): row-major, one draw per cell
RandomArray(seed) ==
    [i \in 1..NumRows |->
        [j \in 1..NumCols |-> Randint(Low, High, seed, NumCols * (i - 1) + (j - 1))]]

\* the default positional index of a table with n rows: 0, 1, ..., n-1
RangeIndex(n) == [i \in 1..n |-> i - 1]

\* pd.DataFrame(data, columns=...)
DataFrame(data, columns) ==
    [columns |-> columns, index |-> RangeIndex(Len(data)), values |-> data]

\* the name df before the construction cell has run
Unbound == [columns |-> <<>>, index |-> <<>>, values |-> <<>>]

IsBound(frame) == frame # Unbound

\* ------------------------------------------------------- the yielded items
\* the value slot of an attribute lookup that returns no table value
Absent == 0 - 1

\* pd.Series(data, index=..., name=...) with the name taken from the position
SeriesNamedByPosition(data, index, name) ==
    [type |-> "Series", name |-> name + 1, index |-> index, values |-> data]

\* pd.Series(data, index=..., name=...): the labelled view of one row
Series(data, index, name) ==
    [type |-> "Series", name |-> name, index |-> index, values |-> data]

\* row.<name> on a Series: the entry labelled name, or the attribute .name
SeriesGetAttr(s, name) ==
    IF \E j \in 1..Len(s.index) : s.index[j] = name
    THEN [kind |-> "value",
          value |-> s.values[CHOOSE j \in 1..Len(s.index) : s.index[j] = name]]
    ELSE IF name = "name"
         THEN [kind |-> "value", value |-> s.name]
         ELSE [kind |-> "AttributeError", value |-> Absent]

\* the item of df.iterrows() for the row at (1-based) position p:
\* for k, v in zip(self.index, self.values): yield k, Series(v, index=columns, name=k)
IterrowsItem(frame, p) ==
    [type |-> "pair",
     ix |-> frame.index[p],
     row |-> Series(frame.values[p], frame.columns, frame.index[p])]

\* the array of column j of the table
ColumnArray(frame, j) == [i \in 1..Len(frame.values) |-> frame.values[i][j]]

\* the field names with the index named in lower case
NamedtupleFieldsLower(frame, index) ==
    IF index THEN <<"index">> \o frame.columns ELSE frame.columns

\* the field names of the record: "Index" first when the index is included
NamedtupleFields(frame, index) ==
    IF index THEN <<"Index">> \o frame.columns ELSE frame.columns

\* the arrays with the last column dropped instead of the index
ItertuplesArraysDropLast(frame, index) ==
    LET cols == [j \in 1..Len(frame.columns) |-> ColumnArray(frame, j)]
        all == <<frame.index>> \o cols
    IN  IF index THEN all ELSE SubSeq(all, 1, Len(all) - 1)

\* the arrays zipped by df.itertuples(): the index first when it is included,
\* then one array per column
ItertuplesArrays(frame, index) ==
    LET cols == [j \in 1..Len(frame.columns) |-> ColumnArray(frame, j)]
    IN  IF index THEN <<frame.index>> \o cols ELSE cols

\* the record built from the arrays of the neighbouring row
ItertuplesItemNextRow(frame, p, index) ==
    LET arrays == ItertuplesArrays(frame, index)
        q == IF p < Len(frame.values) THEN p + 1 ELSE 1
    IN  [type |-> "Pandas",
         fields |-> NamedtupleFields(frame, index),
         values |-> [a \in 1..Len(arrays) |-> IF a = 1 THEN arrays[a][p] ELSE arrays[a][q]]]

\* the item of df.itertuples(index) for the row at position p: zip(*arrays)
ItertuplesItem(frame, p, index) ==
    LET arrays == ItertuplesArrays(frame, index)
    IN  [type |-> "Pandas",
         fields |-> NamedtupleFields(frame, index),
         values |-> [a \in 1..Len(arrays) |-> arrays[a][p]]]

\* nt.<name> on a namedtuple: the field called name; index and count are the
\* methods every tuple has
NamedtupleGetAttr(nt, name) ==
    IF \E j \in 1..Len(nt.fields) : nt.fields[j] = name
    THEN [kind |-> "value",
          value |-> nt.values[CHOOSE j \in 1..Len(nt.fields) : nt.fields[j] = name]]
    ELSE IF name \in {"index", "count"}
         THEN [kind |-> "method", value |-> Absent]
         ELSE [kind |-> "AttributeError", value |-> Absent]

\* ---------------------------------------------------------- the generators
NoItem == [type |-> "none"]

\* an unallocated slot of the pool
NoIter == [live |-> FALSE, kind |-> "none", index |-> FALSE, frame |-> Unbound,
           pos |-> 0, done |-> FALSE]

\* a generator that takes its cursor from the generators already allocated
\* on the same table
NewGeneratorSharedCursor(kind, index, frame) ==
    LET others == {i \in Slots : iters[i].live /\ iters[i].frame = frame}
        cur == IF others = {} THEN 0
               ELSE CHOOSE n \in {iters[i].pos : i \in others} :
                        \A i \in others : iters[i].pos <= n
    IN  [live |-> TRUE, kind |-> kind, index |-> index, frame |-> frame,
         pos |-> cur, done |-> FALSE]

\* df.iterrows() / df.itertuples(index): a new generator over frame that has
\* yielded nothing yet
NewGenerator(kind, index, frame) ==
    [live |-> TRUE, kind |-> kind, index |-> index, frame |-> frame,
     pos |-> 0, done |-> FALSE]

\* the item a generator yields for the row at position p
ItemAt(it, p) ==
    IF it.kind = "iterrows"
    THEN IterrowsItem(it.frame, p)
    ELSE ItertuplesItem(it.frame, p, it.index)

\* next(it) that advances the cursor by two rows
GenNextSkipping(it) ==
    IF it.pos < Len(it.frame.index)
    THEN [it |-> [it EXCEPT !.pos = IF @ + 2 <= Len(it.frame.index) THEN @ + 2 ELSE @ + 1],
          status |-> "item",
          item |-> ItemAt(it, IF it.pos + 2 <= Len(it.frame.index) THEN it.pos + 2 ELSE it.pos + 1)]
    ELSE [it |-> [it EXCEPT !.done = TRUE], status |-> "StopIteration", item |-> NoItem]

\* next(it) that stops one row before the end of the table
GenNextStoppingEarly(it) ==
    IF it.pos < Len(it.frame.index) - 1
    THEN [it |-> [it EXCEPT !.pos = @ + 1], status |-> "item",
          item |-> ItemAt(it, it.pos + 1)]
    ELSE [it |-> [it EXCEPT !.done = TRUE], status |-> "StopIteration", item |-> NoItem]

\* next(it): the next row of the generator's table, or StopIteration when
\* every row has been yielded
GenNext(it) ==
    IF it.pos < Len(it.frame.index)
    THEN [it |-> [it EXCEPT !.pos = @ + 1], status |-> "item",
          item |-> ItemAt(it, it.pos + 1)]
    ELSE [it |-> [it EXCEPT !.done = TRUE], status |-> "StopIteration", item |-> NoItem]

\* ---------------------------------------------------------------- the session
NoOut == [slot |-> 0, status |-> "none", item |-> NoItem]

Idle == [active |-> FALSE, finished |-> FALSE, slot |-> 0, count |-> 0]

FreeSlots == {i \in Slots : ~iters[i].live}

\* the slot a new generator is allocated in
FreeSlot == CHOOSE i \in FreeSlots : \A j \in FreeSlots : i <= j

CanRunCell == ~loop.active /\ IsBound(df)

Init ==
    /\ df = Unbound
    /\ iters = [i \in Slots |-> NoIter]
    /\ out = NoOut
    /\ loop = Idle
    /\ cell = "start"

\* df = pd.DataFrame(np.random.randint(0, 100, size=(100, 4)), columns=list('ABCD'))
\* The generators over the table df was bound to are temporaries of cells
\* that have ended: none of them is reachable any more, and none is kept.
Construct(seed) ==
    /\ ~loop.active
    /\ df' = DataFrame(RandomArray(seed), Columns)
    /\ iters' = [i \in Slots |-> NoIter]
    /\ out' = NoOut
    /\ loop' = Idle
    /\ cell' = "construct"

\* the cell with the first entry of the row written back to the table
NextIterrowsWriting ==
    /\ CanRunCell
    /\ FreeSlots # {}
    /\ LET r == GenNext(NewGenerator("iterrows", TRUE, df))
       IN  /\ iters' = [iters EXCEPT ![FreeSlot] = r.it]
           /\ out' = [slot |-> FreeSlot, status |-> r.status, item |-> r.item]
    /\ df' = [df EXCEPT !.values[1][1] = (@ + 1) % High]
    /\ cell' = "next_iterrows"
    /\ UNCHANGED loop

\* (ix, row) = next(df.iterrows())
NextIterrows ==
    /\ CanRunCell
    /\ FreeSlots # {}
    /\ LET r == GenNext(NewGenerator("iterrows", TRUE, df))
       IN  /\ iters' = [iters EXCEPT ![FreeSlot] = r.it]
           /\ out' = [slot |-> FreeSlot, status |-> r.status, item |-> r.item]
    /\ cell' = "next_iterrows"
    /\ UNCHANGED <<df, loop>>

\* nt = next(df.itertuples())
NextItertuples ==
    /\ CanRunCell
    /\ FreeSlots # {}
    /\ LET r == GenNext(NewGenerator("itertuples", TRUE, df))
       IN  /\ iters' = [iters EXCEPT ![FreeSlot] = r.it]
           /\ out' = [slot |-> FreeSlot, status |-> r.status, item |-> r.item]
    /\ cell' = "next_itertuples"
    /\ UNCHANGED <<df, loop>>

\* the for statement of a timed cell obtains its generator
ForStart(kind, index, name) ==
    /\ CanRunCell
    /\ FreeSlots # {}
    /\ iters' = [iters EXCEPT ![FreeSlot] = NewGenerator(kind, index, df)]
    /\ loop' = [active |-> TRUE, finished |-> FALSE, slot |-> FreeSlot, count |-> 0]
    /\ cell' = name
    /\ UNCHANGED <<df, out>>

\* for ix, row in df.iterrows(): pass
ForIterrows == ForStart("iterrows", TRUE, "for_iterrows")

\* for nt in df.itertuples(): pass
ForItertuples == ForStart("itertuples", TRUE, "for_itertuples")

\* for row in df.itertuples(index=False): pass
ForItertuplesNoIndex == ForStart("itertuples", FALSE, "for_itertuples_noindex")

\* one round of the running for loop: next() on its generator, then the body
\* (pass), or the end of the loop on StopIteration
ForStep ==
    /\ loop.active
    /\ LET r == GenNext(iters[loop.slot])
       IN  /\ iters' = [iters EXCEPT ![loop.slot] = r.it]
           /\ out' = [slot |-> loop.slot, status |-> r.status, item |-> r.item]
           /\ loop' = IF r.status = "item"
                      THEN [loop EXCEPT !.count = @ + 1]
                      ELSE [loop EXCEPT !.active = FALSE, !.finished = TRUE]
    /\ UNCHANGED <<df, cell>>

\* a further next() on a generator that has no items left
NextAgain(i) ==
    /\ ~loop.active
    /\ iters[i].live
    /\ iters[i].pos = Len(iters[i].frame.index)
    /\ LET r == GenNext(iters[i])
       IN  /\ iters' = [iters EXCEPT ![i] = r.it]
           /\ out' = [slot |-> i, status |-> r.status, item |-> r.item]
    /\ cell' = "next_again"
    /\ UNCHANGED <<df, loop>>

\* the generators of the cells that have run are temporaries nothing refers
\* to any more: they are released
Collect ==
    /\ ~loop.active
    /\ FreeSlots # Slots
    /\ iters' = [i \in Slots |-> NoIter]
    /\ out' = NoOut
    /\ loop' = Idle
    /\ cell' = "collect"
    /\ UNCHANGED df

Next ==
    \/ \E seed \in Seeds : Construct(seed)
    \/ NextIterrows
    \/ NextItertuples
    \/ ForIterrows
    \/ ForItertuples
    \/ ForItertuplesNoIndex
    \/ ForStep
    \/ \E i \in Slots : NextAgain(i)
    \/ Collect

Spec == Init /\ [][Next]_vars

\* the kernel keeps executing the cell that is running
FairSpec == Spec /\ WF_vars(ForStep)

\* ------------------------------------------------------------ the properties
Value(n) == [kind |-> "value", value |-> n]

\* the generator the last next() was called on
OutIter == iters[out.slot]

Yielded == out.status = "item"

\* the row index an item carries, read the way the notebook reads it
ItemIndex(item) ==
    IF item.type = "pair" THEN Value(item.ix) ELSE NamedtupleGetAttr(item, "Index")

\* the entry of column c an item carries: row.c or nt.c
ItemEntry(item, c) ==
    IF item.type = "pair" THEN SeriesGetAttr(item.row, c) ELSE NamedtupleGetAttr(item, c)

\* the rows that the allocated generators have reached: a pair of a table
\* and a (1-based) row position
ReachedRows ==
    {<<iters[i].frame, iters[i].pos>> : i \in {k \in Slots : iters[k].live /\ iters[k].pos >= 1}}

\* C1: for every row position a traversal reaches, the (index, series) pair
\* of iterrows() and the record of itertuples() carry the same information:
\* the pair's index equals the record's index field, and for each of the
\* columns A, B, C, D the series entry equals the record field. The item
\* that was yielded last agrees in this way with the item the other
\* traversal has for the same row.
C1_SameInformation ==
    /\ \A fp \in ReachedRows :
          LET r == IterrowsItem(fp[1], fp[2])
              t == ItertuplesItem(fp[1], fp[2], TRUE)
          IN  /\ NamedtupleGetAttr(t, "Index") = Value(r.ix)
              /\ \A c \in {"A", "B", "C", "D"} :
                    /\ SeriesGetAttr(r.row, c).kind = "value"
                    /\ SeriesGetAttr(r.row, c) = NamedtupleGetAttr(t, c)
    /\ (Yielded /\ OutIter.index) =>
          LET other == IF OutIter.kind = "iterrows"
                       THEN ItertuplesItem(OutIter.frame, OutIter.pos, TRUE)
                       ELSE IterrowsItem(OutIter.frame, OutIter.pos)
          IN  /\ ItemIndex(out.item) = ItemIndex(other)
              /\ ItemIndex(out.item).kind = "value"
              /\ \A c \in {"A", "B", "C", "D"} :
                    /\ ItemEntry(out.item, c) = ItemEntry(other, c)
                    /\ ItemEntry(out.item, c).kind = "value"

\* an iterrows() and an itertuples() generator over the same table have both
\* yielded their first row
C1_Witness ==
    \E i, j \in Slots :
        /\ iters[i].live /\ iters[i].kind = "iterrows" /\ iters[i].pos = 1
        /\ iters[j].live /\ iters[j].kind = "itertuples" /\ iters[j].index
        /\ iters[j].pos = 1 /\ iters[j].frame = iters[i].frame
        /\ out.slot = j /\ Yielded

\* C2: itertuples(index=False) omits the index and changes nothing else: for
\* every row a traversal reaches, the record has exactly the fields A, B, C, D, equal in the same
\* order to the fields of the itertuples() record with its leading index
\* field removed; so is every record a generator with index=False yielded.
C2_IndexFalseOmitsOnlyIndex ==
    /\ \A fp \in ReachedRows :
          LET a == ItertuplesItem(fp[1], fp[2], FALSE)
              b == ItertuplesItem(fp[1], fp[2], TRUE)
          IN  /\ a.fields = <<"A", "B", "C", "D">>
              /\ a.fields = Tail(b.fields)
              /\ a.values = Tail(b.values)
              /\ Len(b.values) = Len(a.values) + 1
    /\ (Yielded /\ OutIter.kind = "itertuples" /\ ~OutIter.index) =>
          /\ out.item.fields = <<"A", "B", "C", "D">>
          /\ out.item.values =
                Tail(ItertuplesItem(OutIter.frame, OutIter.pos, TRUE).values)

\* the loop over itertuples(index=False) has yielded a record of a later row
C2_Witness ==
    /\ Yielded /\ OutIter.kind = "itertuples" /\ ~OutIter.index
    /\ OutIter.pos = 3
    /\ cell = "for_itertuples_noindex"

\* C3: no traversal changes the table: every step of the session other than
\* the construction cell leaves the cell values, the column labels and the
\* row index of df as they were.
C3_TableNeverMutated ==
    [][cell' # "construct" =>
          /\ df'.values = df.values
          /\ df'.columns = df.columns
          /\ df'.index = df.index]_vars

\* a traversal has run to completion and another one was stopped after its
\* first next(), over the table that df is still bound to
C3_Witness ==
    \E i, j \in Slots :
        /\ iters[i].live /\ iters[i].done /\ iters[i].frame = df
        /\ iters[j].live /\ iters[j].pos = 1 /\ iters[j].frame = df
        /\ cell = "next_iterrows"

\* C4: both traversals follow the row order of the table: the k-th item a
\* generator yields is the k-th row (index k-1), and every next() moves the
\* generator on by exactly one row, so no row is skipped or repeated.
C4_RowOrder ==
    /\ [](Yielded =>
            /\ OutIter.pos \in 1..Len(OutIter.frame.values)
            /\ OutIter.index => ItemIndex(out.item) = Value(OutIter.pos - 1)
            /\ \A j \in 1..4 :
                  ItemEntry(out.item, Columns[j])
                      = Value(OutIter.frame.values[OutIter.pos][j]))
    /\ [][\A i \in Slots :
            /\ (iters[i].live /\ iters'[i].live) =>
                  /\ iters'[i].pos \in {iters[i].pos, iters[i].pos + 1}
                  /\ iters'[i].pos = iters[i].pos + 1 =>
                        (out'.slot = i /\ out'.status = "item")
            /\ (~iters[i].live /\ iters'[i].live) => iters'[i].pos \in {0, 1}]_vars

\* a loop has reached the last row of the table
C4_Witness ==
    /\ Yielded /\ loop.active /\ out.slot = loop.slot
    /\ OutIter.pos = 100
    /\ ItemIndex(out.item) = Value(99)

C6_IterrowsPair ==
    (Yielded /\ OutIter.kind = "iterrows") =>
        /\ out.item.type = "pair"
        /\ out.item.row.type = "Series"
        /\ out.item.ix = OutIter.frame.index[OutIter.pos]
        /\ out.item.row.name = out.item.ix
        /\ SeriesGetAttr(out.item.row, "name") = Value(out.item.ix)
        /\ out.item.row.index = <<"A", "B", "C", "D">>
        /\ Len(out.item.row.values) = 4
        /\ \A j \in 1..4 :
              SeriesGetAttr(out.item.row, Columns[j])
                  = Value(OutIter.frame.values[OutIter.pos][j])

\* (ix, row) = next(df.iterrows()) has run
C6_Witness ==
    /\ Yielded /\ OutIter.kind = "iterrows"
    /\ cell = "next_iterrows"

\* C7: once constructed, the table has the four columns A, B, C, D in that
\* order, 100 rows of 4 cells, the row index 0..99, and every cell is an
\* integer v with 0 <= v < 100.
C7_TableShape ==
    IsBound(df) =>
        /\ df.columns = <<"A", "B", "C", "D">>
        /\ Len(df.values) = 100
        /\ Len(df.index) = 100
        /\ \A i \in 1..100 :
              /\ df.index[i] = i - 1
              /\ Len(df.values[i]) = 4
              /\ \A j \in 1..4 : df.values[i][j] \in 0..99

\* the table has been constructed and a loop over it has finished
C7_Witness ==
    /\ IsBound(df)
    /\ loop.finished /\ iters[loop.slot].frame = df

\* C9: a for loop over any of the three generators runs its body once per
\* row, 100 times, and then ends; when it has ended its generator has no
\* items left, and every further next() on a generator with no items left
\* yields nothing and leaves it so.
C9_LoopTerminatesAndExhausts ==
    /\ loop.active ~> loop.finished
    /\ [](loop.active =>
            /\ iters[loop.slot].live
            /\ loop.count = iters[loop.slot].pos
            /\ loop.count <= 100)
    /\ [](loop.finished =>
            /\ loop.count = 100
            /\ iters[loop.slot].pos = 100
            /\ iters[loop.slot].done)
    /\ [](out.status = "StopIteration" => (OutIter.pos = 100 /\ OutIter.done))
    /\ [][\A i \in Slots :
            (iters[i].live /\ iters'[i].live /\ iters[i].pos = 100) =>
                /\ iters'[i].pos = 100
                /\ iters[i].done => iters'[i].done
                /\ (out'.slot = i /\ out' # out) => out'.status = "StopIteration"]_vars

\* a loop has finished and next() was called again on its generator
C9_Witness ==
    /\ loop.finished
    /\ cell = "next_again"
    /\ out.slot = loop.slot /\ out.status = "StopIteration"

\* C10: every new generator starts at the first row of df whatever the other
\* generators have consumed: its first next() returns row 0; and a step that
\* creates or advances one generator changes no other.
C10_FreshAndIndependent ==
    [][\A i \in Slots :
          /\ (~iters[i].live /\ iters'[i].live) =>
                /\ iters'[i].frame = df
                /\ iters'[i].pos \in {0, 1}
                /\ iters'[i].pos = 1 => (out'.slot = i /\ out'.status = "item")
          /\ (iters'[i].live /\ iters'[i].pos = 1
                /\ (~iters[i].live \/ iters[i].pos = 0)) =>
                /\ out'.slot = i
                /\ iters'[i].index => ItemIndex(out'.item) = Value(0)
                /\ \A j \in 1..4 :
                      ItemEntry(out'.item, Columns[j])
                          = Value(iters'[i].frame.values[1][j])
          /\ (iters'[i].live /\ iters'[i] # iters[i]) =>
                \A j \in Slots \ {i} : iters'[j] = iters[j]]_vars

\* a new generator has yielded row 0 while an exhausted generator over the
\* same table is still allocated
C10_Witness ==
    \E i, j \in Slots :
        /\ i # j
        /\ iters[i].live /\ iters[i].done
        /\ iters[j].live /\ iters[j].pos = 1 /\ iters[j].frame = iters[i].frame
        /\ out.slot = j /\ Yielded

====
